---------------------------- MODULE Spec2Model ----------------------------
(***************************************************************************)
(* A model of rct's Connection (length-prefixed message framing over a     *)
(* SocketClient) and of the Windows Process runner (two pipe reader        *)
(* threads plus process finalization).                                     *)
(*                                                                         *)
(* Three specifications share the variables:                               *)
(*   SpecRecv  Connection::dataAvailable fed with a chunked byte stream    *)
(*   SpecSend  Connection::send / finish / dataWritten and the event loop  *)
(*   SpecProc  Process::exec / start / readFromPipe /                      *)
(*             waitForProcessToFinish / ~Process with a child process      *)
(* Each specification keeps the other components' variables at their       *)
(* constructor values.                                                     *)
(***************************************************************************)
EXTENDS Integers, Sequences, FiniteSets, TLC

VARIABLES
    \* ---- Connection, receive side
    wire,           \* bytes of the encoded message sequence not yet delivered
    sentMsgs,       \* the messages M1..Mn the peer encoded
    clientBuffer,   \* mClient->buffer(): the stream's current chunk
    mBuffers,       \* Connection::mBuffers, the queue of owned chunks
    mPendingRead,   \* Connection::mPendingRead
    received,       \* the newMessage() emissions, in order
    pushedBytes,    \* every byte pushed onto mBuffers so far, in order
    consumed,       \* every byte bufferRead has returned so far, in order
    lastRead,       \* the last bufferRead call and what it returned
    \* ---- Connection, send side
    connected,      \* mClient->isConnected()
    mSilent,        \* Connection::mSilent
    mPendingWrite,  \* Connection::mPendingWrite
    mDone,          \* Connection::mDone
    writes,         \* the writes issued to the stream, in order
    accepted,       \* bytes the stream accepted for writing
    acked,          \* bytes the stream reported written
    closeCalls,     \* number of mClient->close() calls made by the Connection
    deferred,       \* the event loop's deferred-task queue
    destroyed,      \* the Connection object has been deleted
    sendComplete,   \* number of mSendComplete emissions
    sends,          \* number of send() calls made
    finishes,       \* number of finish() calls made
    lastOp,         \* the last Connection operation and what it did
    \* ---- Process
    handles,        \* mStdIn / mStdOut / mStdErr: which handle values are open
    hProcess,       \* mProcess.hProcess: "INVALID", "NULL" or "VALID"
    mReturn,        \* Process::mReturn
    mStdOutBuffer,  \* Process::mStdOutBuffer
    mStdErrBuffer,  \* Process::mStdErrBuffer
    pipe,           \* bytes in flight in the stdout and stderr pipes
    child,          \* the child process: what it still writes, its exit code
    worker,         \* the reader threads mthStdout and mthStderr
    main,           \* the owning thread
    finishedCount,  \* number of mFinished emissions
    exitFetches,    \* number of GetExitCodeProcess calls
    signals,        \* the (signal, pipe) pairs of the "ready read" emissions
    accesses        \* the accesses made to the buffers and to mReturn

recvVars == <<wire, sentMsgs, clientBuffer, mBuffers, mPendingRead, received,
              pushedBytes, consumed, lastRead>>
sendVars == <<connected, mSilent, mPendingWrite, mDone, writes, accepted,
              acked, closeCalls, deferred, destroyed, sendComplete, sends,
              finishes, lastOp>>
procVars == <<handles, hProcess, mReturn, mStdOutBuffer, mStdErrBuffer, pipe,
              child, worker, main, finishedCount, exitFetches, signals,
              accesses>>
vars == <<recvVars, sendVars, procVars>>

-----------------------------------------------------------------------------
(* Bounds *)

MaxMsgs == 2        \* messages in the received stream
MaxPayload == 1     \* payload bytes per message
MaxSends == 2       \* send() calls on one transport
MaxFinish == 2      \* finish() calls on one transport
MaxOut == 2         \* bytes the child writes to stdout
MaxErr == 2         \* bytes the child writes to stderr
MaxPushed == 5      \* bytes pushed onto the reassembly queue
PipeCapacity == 1   \* bytes a pipe holds before the writer blocks
PIPE_READ_BUFFER_SIZE == 2  \* bytes one ReadFile call returns at most

Ids == {1, 2}        \* message ids on the receive side
SendIds == {1}       \* message ids passed to send()
PayloadBytes == {7}
ExitCodes == {0, 3}

-----------------------------------------------------------------------------
(* Helpers *)

Min(a, b) == IF a < b THEN a ELSE b

RECURSIVE Flatten(_)
Flatten(ss) == IF ss = <<>> THEN <<>> ELSE Head(ss) \o Flatten(Tail(ss))

SeqsUpTo(S, n) == UNION {[1..k -> S] : k \in 0..n}

None == [none |-> TRUE]

-----------------------------------------------------------------------------
(* Wire format: Serializer / Deserializer of a 32-bit integer, and the     *)
(* message registry.                                                       *)

EncodeU32(n) ==
    << (n \div 16777216) % 256, (n \div 65536) % 256,
       (n \div 256) % 256, n % 256 >>

DecodeU32(b) == b[1] * 16777216 + b[2] * 65536 + b[3] * 256 + b[4]

\* data = id + payload; header = size of data
EncodeData(id, payload) == EncodeU32(id) \o payload
EncodeFrame(id, payload) ==
    EncodeU32(Len(EncodeData(id, payload))) \o EncodeData(id, payload)

\* Messages::create(buffer, size): the id and the payload, or no message
MessagesCreate(bytes) ==
    IF Len(bytes) < 4 THEN None
    ELSE [id |-> DecodeU32(SubSeq(bytes, 1, 4)),
          payload |-> SubSeq(bytes, 5, Len(bytes))]

\* the state std::move leaves mClient->buffer() in
movedFromBuffer == <<>>

-----------------------------------------------------------------------------
(* Connection.cpp: bufferSize, bufferRead *)

RECURSIVE bufferSize(_)
bufferSize(buffers) ==
    IF buffers = <<>> THEN 0
    ELSE Len(Head(buffers)) + bufferSize(Tail(buffers))

\* bufferRead leaving a partly read front buffer as it was
RECURSIVE bufferReadLoop_noShrink(_, _, _, _)
bufferReadLoop_noShrink(buffers, out, rem, size) ==
    IF buffers = <<>> THEN [ret |-> Len(out), out |-> out, buffers |-> buffers]
    ELSE LET front == Head(buffers)
             cur == Min(Len(front), rem)
             out2 == out \o SubSeq(front, 1, cur)
             rem2 == rem - cur
             buffers2 == IF cur = Len(front) THEN Tail(buffers) ELSE buffers
         IN  IF rem2 = 0
             THEN [ret |-> size, out |-> out2, buffers |-> buffers2]
             ELSE bufferReadLoop_noShrink(buffers2, out2, rem2, size)

\* the while loop of bufferRead: out is what has been copied so far
RECURSIVE bufferReadLoop(_, _, _, _)
bufferReadLoop(buffers, out, rem, size) ==
    IF buffers = <<>> THEN [ret |-> Len(out), out |-> out, buffers |-> buffers]
    ELSE LET front == Head(buffers)
             cur == Min(Len(front), rem)
             out2 == out \o SubSeq(front, 1, cur)
             rem2 == rem - cur
             buffers2 == IF cur = Len(front)
                         THEN Tail(buffers)
                         ELSE <<SubSeq(front, cur + 1, Len(front))>>
                              \o Tail(buffers)
         IN  IF rem2 = 0
             THEN [ret |-> size, out |-> out2, buffers |-> buffers2]
             ELSE bufferReadLoop(buffers2, out2, rem2, size)

bufferRead(buffers, size) ==
    IF size = 0 THEN [ret |-> 0, out |-> <<>>, buffers |-> buffers]
    ELSE bufferReadLoop(buffers, <<>>, size, size)

-----------------------------------------------------------------------------
(* Connection::dataAvailable *)

\* One run of the handler's while (true) loop on the record
\* s = [client, mBuffers, mPendingRead, received].
RECURSIVE dataAvailableLoop(_)
dataAvailableLoop(s) ==
    IF s.client = <<>> THEN s
    ELSE
      LET pushed == Append(s.mBuffers, s.client)
          available == bufferSize(pushed)
      IN
      IF s.mPendingRead = 0 /\ available < 4
      THEN [s EXCEPT !.client = movedFromBuffer, !.mBuffers = pushed]
      ELSE
        LET hdr == bufferRead(pushed, 4)
            pending == IF s.mPendingRead = 0 THEN DecodeU32(hdr.out)
                       ELSE s.mPendingRead
            bufs == IF s.mPendingRead = 0 THEN hdr.buffers ELSE pushed
            avail == IF s.mPendingRead = 0 THEN available - 4 ELSE available
        IN
        IF avail < pending
        THEN [s EXCEPT !.client = movedFromBuffer, !.mBuffers = bufs,
                       !.mPendingRead = pending]
        ELSE
          LET rd == bufferRead(bufs, pending)
              message == MessagesCreate(rd.out)
          IN dataAvailableLoop(
               [client |-> movedFromBuffer,
                mBuffers |-> rd.buffers,
                mPendingRead |-> 0,
                received |-> IF message # None
                             THEN Append(s.received, message)
                             ELSE s.received])

dataAvailable(chunk) ==
    LET s == dataAvailableLoop([client |-> chunk, mBuffers |-> mBuffers,
                                mPendingRead |-> mPendingRead,
                                received |-> received])
    IN  /\ clientBuffer' = s.client
        /\ mBuffers' = s.mBuffers
        /\ mPendingRead' = s.mPendingRead
        /\ received' = s.received

-----------------------------------------------------------------------------
(* The stream (SocketClient) as the Connection uses it *)

\* mClient->write(bytes): the stream takes the bytes (ok) or rejects them
WriteRec(frame, part, bytes, ok) ==
    [frame |-> frame, part |-> part, bytes |-> bytes, ok |-> ok]

\* mClient->close()
clientClose ==
    /\ connected' = FALSE
    /\ closeCalls' = closeCalls + 1

\* EventLoop::deleteLater(loop, this): the deletion is queued, not run
deleteLater == deferred' = Append(deferred, "delete")

-----------------------------------------------------------------------------
(* Connection::dataWritten, with the value mDone has when it runs *)

\* dataWritten closing as soon as mDone is set, pending bytes or not
dataWritten_closeWhenDone(bytes, done) ==
    /\ mPendingWrite' = mPendingWrite - bytes
    /\ sendComplete' = IF mPendingWrite - bytes = 0 /\ bytes # 0
                       THEN sendComplete + 1 ELSE sendComplete
    /\ IF done
       THEN clientClose /\ deleteLater
       ELSE UNCHANGED <<connected, closeCalls, deferred>>
    /\ destroyed' = destroyed

\* dataWritten deleting the Connection itself instead of deferring it
dataWritten_deleteThis(bytes, done) ==
    /\ mPendingWrite' = mPendingWrite - bytes
    /\ sendComplete' = IF mPendingWrite - bytes = 0 /\ bytes # 0
                       THEN sendComplete + 1 ELSE sendComplete
    /\ IF mPendingWrite - bytes = 0 /\ done
       THEN clientClose /\ destroyed' = TRUE /\ deferred' = deferred
       ELSE UNCHANGED <<connected, closeCalls, deferred, destroyed>>

\* dataWritten emitting 'send complete' whenever nothing is pending
dataWritten_alwaysComplete(bytes, done) ==
    /\ mPendingWrite' = mPendingWrite - bytes
    /\ sendComplete' = IF mPendingWrite - bytes = 0
                       THEN sendComplete + 1 ELSE sendComplete
    /\ IF mPendingWrite - bytes = 0 /\ done
       THEN clientClose /\ deleteLater
       ELSE UNCHANGED <<connected, closeCalls, deferred>>
    /\ destroyed' = destroyed

dataWritten(bytes, done) ==
    /\ mPendingWrite' = mPendingWrite - bytes
    /\ sendComplete' = IF mPendingWrite - bytes = 0 /\ bytes # 0
                       THEN sendComplete + 1 ELSE sendComplete
    /\ IF mPendingWrite - bytes = 0 /\ done
       THEN clientClose /\ deleteLater
       ELSE UNCHANGED <<connected, closeCalls, deferred>>
    /\ destroyed' = destroyed

-----------------------------------------------------------------------------
(* Connection::send: okHeader and okData are the stream's answers to the   *)
(* two writes, stays whether the stream is still connected after it has    *)
(* rejected a write                                                        *)

\* send testing mSilent before the connection
send_silentFirst(id, message, okHeader, okData, stays) ==
    IF message = <<>> \/ mSilent
    THEN /\ lastOp' = [op |-> "send", ret |-> TRUE, case |-> "silent",
                       wrote |-> 0, pw |-> mPendingWrite,
                       len |-> Len(message)]
         /\ UNCHANGED <<connected, mPendingWrite, writes, accepted>>
    ELSE IF ~connected
    THEN /\ lastOp' = [op |-> "send", ret |-> FALSE, case |-> "unconnected",
                       wrote |-> 0, pw |-> mPendingWrite,
                       len |-> Len(message)]
         /\ UNCHANGED <<connected, mPendingWrite, writes, accepted>>
    ELSE
      LET data == EncodeData(id, message)
          header == EncodeU32(Len(data))
          wHeader == WriteRec(sends + 1, "header", header, okHeader)
          wData == WriteRec(sends + 1, "data", data, okData)
      IN
      /\ mPendingWrite' = mPendingWrite + (Len(header) + Len(data))
      /\ writes' = IF okHeader THEN writes \o <<wHeader, wData>>
                   ELSE Append(writes, wHeader)
      /\ accepted' = accepted + (IF okHeader THEN Len(header) ELSE 0)
                              + (IF okHeader /\ okData THEN Len(data) ELSE 0)
      /\ connected' = IF okHeader /\ okData THEN TRUE ELSE stays
      /\ lastOp' = [op |-> "send", ret |-> okHeader /\ okData,
                    case |-> "write",
                    wrote |-> IF okHeader THEN 2 ELSE 1,
                    pw |-> mPendingWrite, len |-> Len(message)]

\* send counting the frame as pending before it tests mSilent
send_countsWhenSilent(id, message, okHeader, okData, stays) ==
    IF message = <<>>
    THEN /\ lastOp' = [op |-> "send", ret |-> TRUE, case |-> "empty",
                       wrote |-> 0, pw |-> mPendingWrite,
                       len |-> Len(message)]
         /\ UNCHANGED <<connected, mPendingWrite, writes, accepted>>
    ELSE IF ~connected
    THEN /\ lastOp' = [op |-> "send", ret |-> FALSE, case |-> "unconnected",
                       wrote |-> 0, pw |-> mPendingWrite,
                       len |-> Len(message)]
         /\ UNCHANGED <<connected, mPendingWrite, writes, accepted>>
    ELSE IF mSilent
    THEN /\ lastOp' = [op |-> "send", ret |-> TRUE, case |-> "silent",
                       wrote |-> 0, pw |-> mPendingWrite,
                       len |-> Len(message)]
         /\ mPendingWrite' = mPendingWrite + (8 + Len(message))
         /\ UNCHANGED <<connected, writes, accepted>>
    ELSE
      LET data == EncodeData(id, message)
          header == EncodeU32(Len(data))
          wHeader == WriteRec(sends + 1, "header", header, okHeader)
          wData == WriteRec(sends + 1, "data", data, okData)
      IN
      /\ mPendingWrite' = mPendingWrite + (Len(header) + Len(data))
      /\ writes' = IF okHeader THEN writes \o <<wHeader, wData>>
                   ELSE Append(writes, wHeader)
      /\ accepted' = accepted + (IF okHeader THEN Len(header) ELSE 0)
                              + (IF okHeader /\ okData THEN Len(data) ELSE 0)
      /\ connected' = IF okHeader /\ okData THEN TRUE ELSE stays
      /\ lastOp' = [op |-> "send", ret |-> okHeader /\ okData,
                    case |-> "write",
                    wrote |-> IF okHeader THEN 2 ELSE 1,
                    pw |-> mPendingWrite, len |-> Len(message)]

send(id, message, okHeader, okData, stays) ==
    IF message = <<>>
    THEN /\ lastOp' = [op |-> "send", ret |-> TRUE, case |-> "empty",
                       wrote |-> 0, pw |-> mPendingWrite,
                       len |-> Len(message)]
         /\ UNCHANGED <<connected, mPendingWrite, writes, accepted>>
    ELSE IF ~connected
    THEN /\ lastOp' = [op |-> "send", ret |-> FALSE, case |-> "unconnected",
                       wrote |-> 0, pw |-> mPendingWrite,
                       len |-> Len(message)]
         /\ UNCHANGED <<connected, mPendingWrite, writes, accepted>>
    ELSE IF mSilent
    THEN /\ lastOp' = [op |-> "send", ret |-> TRUE, case |-> "silent",
                       wrote |-> 0, pw |-> mPendingWrite,
                       len |-> Len(message)]
         /\ UNCHANGED <<connected, mPendingWrite, writes, accepted>>
    ELSE
      LET data == EncodeData(id, message)
          header == EncodeU32(Len(data))
          wHeader == WriteRec(sends + 1, "header", header, okHeader)
          wData == WriteRec(sends + 1, "data", data, okData)
      IN
      /\ mPendingWrite' = mPendingWrite + (Len(header) + Len(data))
      /\ writes' = IF okHeader THEN writes \o <<wHeader, wData>>
                   ELSE Append(writes, wHeader)
      /\ accepted' = accepted + (IF okHeader THEN Len(header) ELSE 0)
                              + (IF okHeader /\ okData THEN Len(data) ELSE 0)
      /\ connected' = IF okHeader /\ okData THEN TRUE ELSE stays
      /\ lastOp' = [op |-> "send", ret |-> okHeader /\ okData,
                    case |-> "write",
                    wrote |-> IF okHeader THEN 2 ELSE 1,
                    pw |-> mPendingWrite,
                       len |-> Len(message)]

-----------------------------------------------------------------------------
(* Connection::finish *)

finish ==
    /\ mDone' = TRUE
    /\ dataWritten(0, TRUE)
    /\ lastOp' = [op |-> "finish", ret |-> TRUE, case |-> "finish",
                  wrote |-> 0, pw |-> mPendingWrite, len |-> 0]

-----------------------------------------------------------------------------
(* SpecSend: the transport's send side driven by its caller, the stream    *)
(* and the event loop                                                      *)

Payloads == SeqsUpTo(PayloadBytes, MaxPayload)

\* the reassembly history of a queue nothing has been pushed onto
ReassemblerUnused ==
    /\ pushedBytes = <<>>
    /\ consumed = <<>>
    /\ lastRead = [size |-> 0, ret |-> 0, out |-> <<>>, shape |-> <<>>,
                   before |-> 0, after |-> 0]

RecvConstructed ==
    /\ wire = <<>>
    /\ sentMsgs = <<>>
    /\ clientBuffer = <<>>
    /\ mBuffers = <<>>
    /\ mPendingRead = 0
    /\ received = <<>>
    /\ ReassemblerUnused

SendConstructed ==
    /\ mSilent = FALSE
    /\ mPendingWrite = 0
    /\ mDone = FALSE
    /\ writes = <<>>
    /\ accepted = 0
    /\ acked = 0
    /\ closeCalls = 0
    /\ deferred = <<>>
    /\ destroyed = FALSE
    /\ sendComplete = 0
    /\ sends = 0
    /\ finishes = 0
    /\ lastOp = [op |-> "new", ret |-> TRUE, case |-> "new", wrote |-> 0,
                 pw |-> 0, len |-> 0]

Send ==
    /\ ~destroyed
    /\ sends < MaxSends
    /\ \E id \in SendIds, message \in Payloads, okHeader, okData, stays \in BOOLEAN :
         send(id, message, okHeader, okData, stays)
    /\ sends' = sends + 1
    /\ UNCHANGED <<mSilent, mDone, acked, closeCalls, deferred, destroyed,
                   sendComplete, finishes>>
    /\ UNCHANGED <<recvVars, procVars>>

Finish ==
    /\ ~destroyed
    /\ finishes < MaxFinish
    /\ finish
    /\ finishes' = finishes + 1
    /\ UNCHANGED <<mSilent, writes, accepted, acked, sends>>
    /\ UNCHANGED <<recvVars, procVars>>

\* the stream's bytesWritten signal
DataWritten ==
    /\ ~destroyed
    /\ connected
    /\ \E bytes \in 1..(accepted - acked) :
         /\ acked' = acked + bytes
         /\ dataWritten(bytes, mDone)
         /\ lastOp' = [op |-> "dataWritten", ret |-> TRUE, case |-> "stream",
                       wrote |-> bytes, pw |-> mPendingWrite, len |-> 0]
    /\ UNCHANGED <<mSilent, mDone, writes, accepted, sends, finishes>>
    /\ UNCHANGED <<recvVars, procVars>>

\* the stream's connected signal (connectToServer succeeded)
ClientConnected ==
    /\ ~destroyed
    /\ ~connected
    /\ closeCalls = 0
    /\ connected' = TRUE
    /\ UNCHANGED <<mSilent, mPendingWrite, mDone, writes, accepted, acked,
                   closeCalls, deferred, destroyed, sendComplete, sends,
                   finishes, lastOp>>
    /\ UNCHANGED <<recvVars, procVars>>

\* the stream's disconnected signal (the peer went away)
ClientDisconnected ==
    /\ ~destroyed
    /\ connected
    /\ connected' = FALSE
    /\ UNCHANGED <<mSilent, mPendingWrite, mDone, writes, accepted, acked,
                   closeCalls, deferred, destroyed, sendComplete, sends,
                   finishes, lastOp>>
    /\ UNCHANGED <<recvVars, procVars>>

SetSilent ==
    /\ ~destroyed
    /\ mSilent' = ~mSilent
    /\ UNCHANGED <<connected, mPendingWrite, mDone, writes, accepted, acked,
                   closeCalls, deferred, destroyed, sendComplete, sends,
                   finishes, lastOp>>
    /\ UNCHANGED <<recvVars, procVars>>

\* the next event-loop turn runs the deferred tasks
EventLoopTurn ==
    /\ ~destroyed
    /\ deferred # <<>>
    /\ destroyed' = TRUE
    /\ deferred' = Tail(deferred)
    /\ lastOp' = [op |-> "turn", ret |-> TRUE, case |-> "delete",
                  wrote |-> 0, pw |-> mPendingWrite, len |-> 0]
    /\ UNCHANGED <<connected, mSilent, mPendingWrite, mDone, writes, accepted,
                   acked, closeCalls, sendComplete, sends, finishes>>
    /\ UNCHANGED <<recvVars, procVars>>

-----------------------------------------------------------------------------
(* Process_Windows.cpp                                                     *)

HandleNames == {"in_r", "in_w", "out_r", "out_w", "err_r", "err_w"}
Workers == {"out", "err"}
Threads == {"out", "err", "main"}

ReturnUnset == -2
\* what an uninitialised DWORD retCode may hold
Uninitialised == ExitCodes \cup {99}

OutBytes(n) == [i \in 1..n |-> i]
ErrBytes(n) == [i \in 1..n |-> 10 + i]

ProcConstructed ==
    /\ handles = [h \in HandleNames |-> FALSE]
    /\ hProcess = "INVALID"
    /\ mReturn = ReturnUnset
    /\ mStdOutBuffer = <<>>
    /\ mStdErrBuffer = <<>>
    /\ pipe = [p \in Workers |-> <<>>]
    /\ child = [state |-> "none", out |-> <<>>, err |-> <<>>, code |-> 0,
                wrote |-> [p \in Workers |-> <<>>]]
    /\ worker = [w \in Workers |-> [pc |-> "unstarted", buf |-> <<>>,
                                    from |-> "none"]]
    /\ main = [pc |-> "new", mode |-> "none", ret |-> "none",
               fail |-> "none"]
    /\ finishedCount = 0
    /\ exitFetches = 0
    /\ signals = {}
    /\ accesses = {}

PcOf(t) == IF t = "main" THEN main.pc ELSE worker[t].pc

Goto(t, p) ==
    IF t = "main"
    THEN main' = [main EXCEPT !.pc = p] /\ worker' = worker
    ELSE worker' = [worker EXCEPT ![t].pc = p] /\ main' = main

\* one access to a shared field: by whom, and whether mMutex was held
Access(field, by, locked) == [field |-> field, by |-> by, locked |-> locked]

\* closeHandleIfValid on every listed pipe handle
closeHandles(hs) == handles' = [h \in HandleNames |->
                                  IF h \in hs THEN FALSE ELSE handles[h]]

-----------------------------------------------------------------------------
(* Process::startInternal up to the start of mthStdout.  fail is the step  *)
(* that fails; nOut, nErr and code describe the child that is launched.    *)

FailSteps == {"pipe1", "pipe2", "pipe3", "inherit", "launch", "none"}

\* the pipe handles CreatePipe has opened when startInternal stops at fail
OpenedPipes(fail) ==
    CASE fail = "pipe1" -> {}
      [] fail = "pipe2" -> {"in_r", "in_w"}
      [] fail = "pipe3" -> {"in_r", "in_w", "out_r", "out_w"}
      [] OTHER -> HandleNames

startInternal(mode, fail, nOut, nErr, code) ==
    IF fail # "none"
    THEN \* return Error
         /\ handles' = [h \in HandleNames |-> h \in OpenedPipes(fail)]
         /\ hProcess' = IF fail = "launch" THEN "NULL" ELSE hProcess
         /\ main' = [pc |-> "returned", mode |-> mode, ret |-> "Error",
                     fail |-> fail]
         /\ UNCHANGED <<child, worker>>
    ELSE /\ handles' = [h \in HandleNames |-> h \notin {"out_w", "err_w"}]
         /\ hProcess' = "VALID"
         /\ child' = [state |-> "running", out |-> OutBytes(nOut),
                      err |-> ErrBytes(nErr), code |-> code,
                      wrote |-> [p \in Workers |-> <<>>]]
         /\ worker' = [worker EXCEPT !["out"].pc = "read"]
         /\ main' = [pc |-> "thread2", mode |-> mode, ret |-> "none",
                     fail |-> fail]

\* startInternal returning Done without having started mthStderr
startStderrThread_notStarted ==
    /\ worker' = worker
    /\ main' = [main EXCEPT !.ret = "Done",
                            !.pc = IF main.mode = "exec" THEN "join_out"
                                   ELSE "returned"]

\* exec returning as start does, without the joins
startStderrThread_noJoin ==
    /\ worker' = [worker EXCEPT !["err"].pc = "read"]
    /\ main' = [main EXCEPT !.ret = "Done", !.pc = "returned"]

\* the start of mthStderr and return Done; exec goes on to join
startStderrThread ==
    /\ worker' = [worker EXCEPT !["err"].pc = "read"]
    /\ main' = [main EXCEPT !.ret = "Done",
                            !.pc = IF main.mode = "exec" THEN "join_out"
                                   ELSE "returned"]

-----------------------------------------------------------------------------
(* Process::readFromPipe, run by worker w.  The arguments of the thread:   *)

\* the pipe ReadFile is called on
ReadPipe(w) == "out"
\* the buffer the bytes are appended to
AppendBuffer(w) == "out"
\* f_signalGotSth
SignalGotSth(w) == w
\* f_execAfter
ExecAfter(w) == w = "out"

ReadHandle(p) == IF p = "out" THEN "out_r" ELSE "err_r"

\* nobody holds a write end of pipe p any more
NoWriter(p) ==
    /\ ~handles[IF p = "out" THEN "out_w" ELSE "err_w"]
    /\ child.state # "running"

AfterLoop(w) == IF ExecAfter(w) THEN "wf_check" ELSE "done"

\* one ReadFile call
readFile(w) ==
    LET p == ReadPipe(w) IN
    /\ worker[w].pc = "read"
    /\ IF ~handles[ReadHandle(p)]
       THEN \* the handle has been closed: an error ends the loop
            worker' = [worker EXCEPT ![w].pc = AfterLoop(w)] /\ pipe' = pipe
       ELSE IF pipe[p] # <<>>
       THEN LET n == Min(Len(pipe[p]), PIPE_READ_BUFFER_SIZE) IN
            /\ worker' = [worker EXCEPT ![w].pc = "append",
                                        ![w].buf = SubSeq(pipe[p], 1, n),
                                        ![w].from = p]
            /\ pipe' = [pipe EXCEPT ![p] = SubSeq(pipe[p], n + 1, Len(pipe[p]))]
       ELSE \* ERROR_BROKEN_PIPE once nobody can write; blocked until then
            /\ NoWriter(p)
            /\ worker' = [worker EXCEPT ![w].pc = AfterLoop(w)]
            /\ pipe' = pipe
    /\ UNCHANGED <<handles, hProcess, mReturn, mStdOutBuffer, mStdErrBuffer,
                   child, main, finishedCount, exitFetches, signals,
                   accesses>>

\* lock_guard; append; (f_signalGotSth)(this)
appendAndSignal(w) ==
    /\ worker[w].pc = "append"
    /\ IF AppendBuffer(w) = "out"
       THEN /\ mStdOutBuffer' = mStdOutBuffer \o worker[w].buf
            /\ mStdErrBuffer' = mStdErrBuffer
       ELSE /\ mStdErrBuffer' = mStdErrBuffer \o worker[w].buf
            /\ mStdOutBuffer' = mStdOutBuffer
    /\ signals' = signals \cup {<<SignalGotSth(w), worker[w].from>>}
    /\ accesses' = accesses \cup {Access(IF AppendBuffer(w) = "out"
                                          THEN "mStdOutBuffer"
                                          ELSE "mStdErrBuffer",
                                          "reader", TRUE)}
    /\ worker' = [worker EXCEPT ![w].pc = "read", ![w].buf = <<>>]
    /\ UNCHANGED <<handles, hProcess, mReturn, pipe, child, main,
                   finishedCount, exitFetches>>

readFromPipe(w) == readFile(w) \/ appendAndSignal(w)

-----------------------------------------------------------------------------
(* Process::waitForProcessToFinish, run by thread t (the stdout worker     *)
(* after its loop, the owning thread in the destructor)                    *)

WfReturn(t) == IF t = "main" THEN "dtor_close" ELSE "done"

\* if (mProcess.hProcess == INVALID_HANDLE_VALUE) return;
wfCheck(t) ==
    /\ PcOf(t) = "wf_check"
    /\ Goto(t, IF hProcess = "INVALID" THEN WfReturn(t) ELSE "wf_wait")
    /\ UNCHANGED <<handles, hProcess, mReturn, mStdOutBuffer, mStdErrBuffer,
                   pipe, child, finishedCount, exitFetches, signals,
                   accesses>>

\* WaitForSingleObject: returns once the child has exited, or at once with
\* a failure on a handle value that is no open handle
wfWait(t) ==
    /\ PcOf(t) = "wf_wait"
    /\ hProcess = "VALID" => child.state = "exited"
    /\ Goto(t, "wf_fetch")
    /\ UNCHANGED <<handles, hProcess, mReturn, mStdOutBuffer, mStdErrBuffer,
                   pipe, child, finishedCount, exitFetches, signals,
                   accesses>>

\* GetExitCodeProcess(...); mReturn = retCode;
wfFetch(t) ==
    /\ PcOf(t) = "wf_fetch"
    /\ \E retCode \in (IF hProcess = "VALID" THEN {child.code}
                       ELSE Uninitialised) :
         mReturn' = retCode
    /\ exitFetches' = exitFetches + 1
    /\ accesses' = accesses \cup {Access("mReturn", "finalization", FALSE)}
    /\ Goto(t, "wf_emit")
    /\ UNCHANGED <<handles, hProcess, mStdOutBuffer, mStdErrBuffer, pipe,
                   child, finishedCount, signals>>

\* mFinished(this)
wfEmit(t) ==
    /\ PcOf(t) = "wf_emit"
    /\ finishedCount' = finishedCount + 1
    /\ Goto(t, "wf_close")
    /\ UNCHANGED <<handles, hProcess, mReturn, mStdOutBuffer, mStdErrBuffer,
                   pipe, child, exitFetches, signals,
                   accesses>>

\* closeHandleIfValid(mProcess.hThread); closeHandleIfValid(mProcess.hProcess)
wfClose(t) ==
    /\ PcOf(t) = "wf_close"
    /\ hProcess' = "INVALID"
    /\ Goto(t, WfReturn(t))
    /\ UNCHANGED <<handles, mReturn, mStdOutBuffer, mStdErrBuffer, pipe,
                   child, finishedCount, exitFetches, signals,
                   accesses>>

waitForProcessToFinish(t) ==
    wfCheck(t) \/ wfWait(t) \/ wfFetch(t) \/ wfEmit(t) \/ wfClose(t)

-----------------------------------------------------------------------------
(* SpecProc: the owning thread, the two reader threads and the child       *)

procOnly == UNCHANGED <<recvVars, sendVars>>

\* Process::exec: startInternal, then the joins
Exec ==
    /\ main.pc = "new"
    /\ \E fail \in FailSteps, nOut \in 0..MaxOut, nErr \in 0..MaxErr,
          code \in ExitCodes :
         startInternal("exec", fail, nOut, nErr, code)
    /\ UNCHANGED <<mReturn, mStdOutBuffer, mStdErrBuffer, pipe, finishedCount,
                   exitFetches, signals,
                   accesses>>
    /\ procOnly

\* Process::start
Start ==
    /\ main.pc = "new"
    /\ \E fail \in FailSteps, nOut \in 0..MaxOut, nErr \in 0..MaxErr,
          code \in ExitCodes :
         startInternal("start", fail, nOut, nErr, code)
    /\ UNCHANGED <<mReturn, mStdOutBuffer, mStdErrBuffer, pipe, finishedCount,
                   exitFetches, signals,
                   accesses>>
    /\ procOnly

StartStderrThread ==
    /\ main.pc = "thread2"
    /\ startStderrThread
    /\ UNCHANGED <<handles, hProcess, mReturn, mStdOutBuffer, mStdErrBuffer,
                   pipe, child, finishedCount, exitFetches, signals,
                   accesses>>
    /\ procOnly

\* if(mthStdout.joinable()) mthStdout.join();
ExecJoinStdout ==
    /\ main.pc = "join_out"
    /\ worker["out"].pc = "done"
    /\ main' = [main EXCEPT !.pc = "join_err"]
    /\ UNCHANGED <<handles, hProcess, mReturn, mStdOutBuffer, mStdErrBuffer,
                   pipe, child, worker, finishedCount, exitFetches, signals,
                   accesses>>
    /\ procOnly

\* if(mthStderr.joinable()) mthStderr.join(); return ret;
ExecJoinStderr ==
    /\ main.pc = "join_err"
    /\ worker["err"].pc = "done"
    /\ main' = [main EXCEPT !.pc = "returned"]
    /\ UNCHANGED <<handles, hProcess, mReturn, mStdOutBuffer, mStdErrBuffer,
                   pipe, child, worker, finishedCount, exitFetches, signals,
                   accesses>>
    /\ procOnly

ReadFromPipe ==
    /\ \E w \in Workers : readFromPipe(w)
    /\ procOnly

\* the finalization run by the stdout worker and by the destructor
WaitForProcessToFinish ==
    /\ \E t \in {"out", "main"} : waitForProcessToFinish(t)
    /\ procOnly

\* Process::returnCode() called by the owning thread
ReturnCode ==
    /\ main.pc \in {"new", "returned"}
    /\ accesses' = accesses \cup {Access("mReturn", "returnCode", TRUE)}
    /\ UNCHANGED <<handles, hProcess, mReturn, mStdOutBuffer, mStdErrBuffer,
                   pipe, child, worker, main, finishedCount, exitFetches,
                   signals>>
    /\ procOnly

\* Process::~Process begins: waitForProcessToFinish()
Destructor ==
    /\ main.pc \in {"new", "returned"}
    /\ main' = [main EXCEPT !.pc = "wf_check"]
    /\ UNCHANGED <<handles, hProcess, mReturn, mStdOutBuffer, mStdErrBuffer,
                   pipe, child, worker, finishedCount, exitFetches, signals,
                   accesses>>
    /\ procOnly

\* the destructor closes the six pipe handles
DestructorClose ==
    /\ main.pc = "dtor_close"
    /\ closeHandles(HandleNames)
    /\ main' = [main EXCEPT !.pc = "dtor_join_out"]
    /\ UNCHANGED <<hProcess, mReturn, mStdOutBuffer, mStdErrBuffer, pipe,
                   child, worker, finishedCount, exitFetches, signals,
                   accesses>>
    /\ procOnly

\* the destructor joins the threads that are joinable
DestructorJoin ==
    /\ \/ /\ main.pc = "dtor_join_out"
          /\ worker["out"].pc \in {"unstarted", "done"}
          /\ main' = [main EXCEPT !.pc = "dtor_join_err"]
       \/ /\ main.pc = "dtor_join_err"
          /\ worker["err"].pc \in {"unstarted", "done"}
          /\ main' = [main EXCEPT !.pc = "destroyed"]
    /\ UNCHANGED <<handles, hProcess, mReturn, mStdOutBuffer, mStdErrBuffer,
                   pipe, child, worker, finishedCount, exitFetches, signals,
                   accesses>>
    /\ procOnly

\* the child writes its next byte to stdout or stderr; it blocks on a full pipe
ChildWrite ==
    /\ child.state = "running"
    /\ \E p \in Workers :
         LET left == IF p = "out" THEN child.out ELSE child.err IN
         /\ left # <<>>
         /\ Len(pipe[p]) < PipeCapacity
         /\ pipe' = [pipe EXCEPT ![p] = Append(pipe[p], Head(left))]
         /\ child' = [child EXCEPT
                        !.out = IF p = "out" THEN Tail(left) ELSE child.out,
                        !.err = IF p = "err" THEN Tail(left) ELSE child.err,
                        !.wrote[p] = Append(child.wrote[p], Head(left))]
    /\ UNCHANGED <<handles, hProcess, mReturn, mStdOutBuffer, mStdErrBuffer,
                   worker, main, finishedCount, exitFetches, signals,
                   accesses>>
    /\ procOnly

\* the child has written everything and exits with its code
ChildExit ==
    /\ child.state = "running"
    /\ child.out = <<>>
    /\ child.err = <<>>
    /\ child' = [child EXCEPT !.state = "exited"]
    /\ UNCHANGED <<handles, hProcess, mReturn, mStdOutBuffer, mStdErrBuffer,
                   pipe, worker, main, finishedCount, exitFetches, signals,
                   accesses>>
    /\ procOnly

InitProc ==
    /\ RecvConstructed
    /\ connected = FALSE
    /\ SendConstructed
    /\ ProcConstructed

NextProc ==
    \/ Exec
    \/ Start
    \/ StartStderrThread
    \/ ExecJoinStdout
    \/ ExecJoinStderr
    \/ ReadFromPipe
    \/ WaitForProcessToFinish
    \/ ReturnCode
    \/ Destructor
    \/ DestructorClose
    \/ DestructorJoin
    \/ ChildWrite
    \/ ChildExit

SpecProc == InitProc /\ [][NextProc]_vars

-----------------------------------------------------------------------------
(* SpecSend *)

InitSend ==
    /\ RecvConstructed
    /\ connected \in BOOLEAN
    /\ SendConstructed
    /\ ProcConstructed

NextSend ==
    \/ Send
    \/ Finish
    \/ DataWritten
    \/ ClientConnected
    \/ ClientDisconnected
    \/ SetSilent
    \/ EventLoopTurn

SpecSend == InitSend /\ [][NextSend]_vars

-----------------------------------------------------------------------------
(* SpecRecv: an encoded message sequence delivered in chunks, one chunk    *)
(* per dataAvailable notification                                          *)

Messages == [id : Ids, payload : Payloads]

MessageSeqs == UNION {[1..n -> Messages] : n \in 1..MaxMsgs}

Encoded(msgs) ==
    Flatten([i \in 1..Len(msgs) |-> EncodeFrame(msgs[i].id, msgs[i].payload)])

InitRecv ==
    /\ sentMsgs \in MessageSeqs
    /\ wire = Encoded(sentMsgs)
    /\ clientBuffer = <<>>
    /\ mBuffers = <<>>
    /\ mPendingRead = 0
    /\ received = <<>>
    /\ ReassemblerUnused
    /\ connected = TRUE
    /\ SendConstructed
    /\ ProcConstructed

\* the stream has read the next chunk and raises readyRead
DataAvailable ==
    /\ wire # <<>>
    /\ \E k \in 1..Len(wire) :
         /\ dataAvailable(SubSeq(wire, 1, k))
         /\ wire' = SubSeq(wire, k + 1, Len(wire))
    /\ UNCHANGED <<sentMsgs, pushedBytes, consumed, lastRead>>
    /\ UNCHANGED <<sendVars, procVars>>

NextRecv == DataAvailable

SpecRecv == InitRecv /\ [][NextRecv]_vars

-----------------------------------------------------------------------------
(* Claims about Connection::dataAvailable (SpecRecv)                       *)

\* C1: once every chunk of the encoded sequence M1..Mn has been delivered,
\* 'message received' has been emitted exactly for M1..Mn, in that order,
\* with the same ids and payload bytes.
C1_AllMessagesDelivered == wire = <<>> => received = sentMsgs

\* C5: when dataAvailable returns the reassembly queue holds no complete
\* frame: mPendingRead is 0 and fewer than 4 bytes are buffered, or
\* mPendingRead is N > 0 and fewer than N bytes are buffered.
C5_NoCompleteFrameLeft ==
    \/ mPendingRead = 0 /\ bufferSize(mBuffers) < 4
    \/ mPendingRead > 0 /\ bufferSize(mBuffers) < mPendingRead

-----------------------------------------------------------------------------
(* Claims about the send side (SpecSend)                                   *)

\* C4: pendingWrite() is the number of bytes the stream accepted minus the
\* bytes acknowledged so far, never negative, also after failed sends.
C4_PendingIsAcceptedMinusAcked ==
    /\ mPendingWrite = accepted - acked
    /\ mPendingWrite >= 0

\* C7: in the writes issued to the stream every header write is immediately
\* followed by the write of its own id+payload block.
C7_FramesWhole ==
    \A i \in 1..Len(writes) :
      writes[i].part = "header" =>
        /\ i < Len(writes)
        /\ writes[i + 1].part = "data"
        /\ writes[i + 1].frame = writes[i].frame

\* C8: after finish() with bytes pending, the transport neither closes the
\* stream nor schedules its destruction while mPendingWrite > 0, and the
\* write completion that brings mPendingWrite to 0 does both in that step.
C8_FinishWaitsForDrain ==
    /\ [](mDone /\ mPendingWrite > 0 =>
            closeCalls = 0 /\ deferred = <<>> /\ ~destroyed)
    /\ [][(mDone /\ mPendingWrite > 0 /\ mPendingWrite' = 0) =>
            /\ lastOp'.op = "dataWritten"
            /\ closeCalls' = closeCalls + 1
            /\ ~connected'
            /\ deferred' = Append(deferred, "delete")]_vars

\* C8 witness: a write completion has drained the bytes that were pending
\* when finish() was called, and has closed the stream and queued the delete
C8_Drained ==
    /\ lastOp.op = "dataWritten"
    /\ lastOp.pw > 0
    /\ mDone
    /\ mPendingWrite = 0
    /\ closeCalls = 1
    /\ deferred = <<"delete">>

\* C9: finish() with mPendingWrite = 0 closes the stream and queues the
\* destruction; the object is alive when finish() returns, and it is
\* destroyed only by the event loop running the queued task.
C9_FinishDefersDestruction ==
    /\ [][(finishes' = finishes + 1 /\ mPendingWrite = 0) =>
            /\ ~connected'
            /\ closeCalls' = closeCalls + 1
            /\ deferred' = Append(deferred, "delete")
            /\ ~destroyed']_vars
    /\ [][(destroyed' /\ ~destroyed) =>
            lastOp'.op = "turn" /\ deferred # <<>>]_vars

\* C9 witness: finish() has returned after finding nothing pending
C9_FinishedIdle ==
    /\ lastOp.op = "finish"
    /\ lastOp.pw = 0
    /\ closeCalls >= 1
    /\ deferred # <<>>
    /\ ~destroyed

-----------------------------------------------------------------------------
(* Claims about the Process (SpecProc)                                     *)

\* C2: with waitForProcessToFinish() run by the stdout worker and by the
\* destructor, the exit code is fetched once and 'finished' is emitted once.
C2_FinalizedOnce == finishedCount <= 1 /\ exitFetches <= 1

\* C3: after exec() has returned Done the stdout buffer holds the bytes the
\* child wrote to stdout, in the order written, and mReturn is its exit code.
C3_ExecOutput ==
    (main.mode = "exec" /\ main.pc = "returned" /\ main.ret = "Done") =>
        /\ mStdOutBuffer = child.wrote["out"]
        /\ mReturn = child.code

\* C6: each worker reads only its own pipe, and bytes of one stream are
\* neither appended to the other stream's buffer nor announced by the other
\* stream's signal.
C6_OwnStreamOnly ==
    /\ \A w \in Workers : worker[w].from \in {"none", w}
    /\ \A s \in signals : s[1] = s[2]
    /\ \A i \in 1..Len(mStdOutBuffer) : mStdOutBuffer[i] <= 10
    /\ \A i \in 1..Len(mStdErrBuffer) : mStdErrBuffer[i] > 10

\* C10: when the launch fails the spawn returns Error and none of the six
\* pipe handles is open on return.
C10_NoHandleOpenAfterFailedLaunch ==
    (main.pc = "returned" /\ main.fail = "launch") =>
        /\ main.ret = "Error"
        /\ \A h \in HandleNames : ~handles[h]

Started(w) == worker[w].pc # "unstarted"
Running(w) == worker[w].pc \notin {"unstarted", "done"}
SpawnReturned == main.ret # "none"

\* C11 as stated: the number of running reader workers is always 0 or 2.
C11_RunningZeroOrTwo ==
    Cardinality({w \in Workers : Running(w)}) \in {0, 2}

\* C11 amended: when the spawn has returned, it returned Error with no
\* reader worker started or Done with both the stdout and the stderr worker
\* started; the stderr worker is never started without the stdout worker.
C11_StartedZeroOrTwo ==
    /\ Started("err") => Started("out")
    /\ SpawnReturned =>
         \/ main.ret = "Error" /\ \A w \in Workers : ~Started(w)
         \/ main.ret = "Done" /\ \A w \in Workers : Started(w)

\* C11 witness: a spawn has returned Done with both workers started
C11_BothStarted ==
    /\ main.pc = "returned"
    /\ main.mode = "start"
    /\ main.ret = "Done"
    /\ \A w \in Workers : Started(w)

-----------------------------------------------------------------------------
(* SpecBuf: the reassembly queue on its own, chunks pushed as dataAvailable *)
(* pushes them and consumed with bufferRead.  The i-th byte pushed is i.    *)

ChunkShape(buffers) == [i \in 1..Len(buffers) |-> Len(buffers[i])]

InitBuf ==
    /\ RecvConstructed
    /\ connected = TRUE
    /\ SendConstructed
    /\ ProcConstructed

\* mBuffers.push_back(chunk) with a non-empty chunk
Push ==
    /\ Len(pushedBytes) < MaxPushed
    /\ \E k \in 1..(MaxPushed - Len(pushedBytes)) :
         LET chunk == [i \in 1..k |-> Len(pushedBytes) + i] IN
         /\ mBuffers' = Append(mBuffers, chunk)
         /\ pushedBytes' = pushedBytes \o chunk
    /\ UNCHANGED <<wire, sentMsgs, clientBuffer, mPendingRead, received,
                   consumed, lastRead>>
    /\ UNCHANGED <<sendVars, procVars>>

\* bufferRead(mBuffers, out, n) with n bytes buffered
Consume ==
    /\ \E n \in 1..bufferSize(mBuffers) :
         LET r == bufferRead(mBuffers, n) IN
         /\ mBuffers' = r.buffers
         /\ consumed' = consumed \o r.out
         /\ lastRead' = [size |-> n, ret |-> r.ret, out |-> r.out,
                         shape |-> ChunkShape(mBuffers),
                         before |-> bufferSize(mBuffers),
                         after |-> bufferSize(r.buffers)]
    /\ UNCHANGED <<wire, sentMsgs, clientBuffer, mPendingRead, received,
                   pushedBytes>>
    /\ UNCHANGED <<sendVars, procVars>>

NextBuf == Push \/ Consume

SpecBuf == InitBuf /\ [][NextBuf]_vars

\* C12: every bufferRead of n buffered bytes returns n and exactly n bytes,
\* bufferSize drops by n, and the bytes consumed so far followed by the bytes
\* still queued are the bytes pushed, in order: none lost, duplicated or
\* reordered.
C12_ConsumeIsExactPrefix ==
    /\ consumed \o Flatten(mBuffers) = pushedBytes
    /\ lastRead.ret = lastRead.size
    /\ Len(lastRead.out) = lastRead.size
    /\ lastRead.after = lastRead.before - lastRead.size

\* C12 witness: a read of 3 bytes from two 2-byte chunks, which removes the
\* first chunk and shrinks the second
C12_ReadAcrossChunks ==
    /\ lastRead.shape = <<2, 2>>
    /\ lastRead.size = 3
    /\ Len(mBuffers) = 1
    /\ Len(consumed) > 3

-----------------------------------------------------------------------------
(* Further claims about the send side (SpecSend)                           *)

\* a step that is a send() call, a finish() call, a write completion
SendStep == sends' = sends + 1
FinishStep == finishes' = finishes + 1
WrittenStep == acked' > acked

\* C13: 'send complete' is emitted exactly by the write completions that
\* carry B > 0 bytes and bring mPendingWrite to 0: once by each of them,
\* never with mPendingWrite > 0 afterwards, never by finish().
C13_SendCompleteOnRealDrain ==
    [][IF WrittenStep /\ mPendingWrite' = 0
       THEN sendComplete' = sendComplete + 1
       ELSE sendComplete' = sendComplete]_vars

\* C13 witness: a write completion has emitted 'send complete'
C13_Completed ==
    /\ lastOp.op = "dataWritten"
    /\ lastOp.wrote > 0
    /\ mPendingWrite = 0
    /\ sendComplete = 1

\* C14: send() with a non-empty payload on a stream that is not connected
\* returns failure, issues no write and leaves mPendingWrite unchanged,
\* silent or not.
C14_UnconnectedSendFails ==
    [][(SendStep /\ lastOp'.len > 0 /\ ~connected) =>
         /\ lastOp'.ret = FALSE
         /\ writes' = writes
         /\ accepted' = accepted
         /\ mPendingWrite' = mPendingWrite]_vars

\* C14 witness: such a send has been made in silent mode
C14_UnconnectedSilentSend ==
    /\ lastOp.op = "send"
    /\ lastOp.len > 0
    /\ ~lastOp.ret
    /\ mSilent
    /\ ~connected
    /\ writes = <<>>

\* C15: send() with an empty payload (in any state) and send() with a
\* non-empty payload on a connected silent transport return success, issue
\* no write and leave mPendingWrite unchanged.
C15_DiscardedSendHasNoEffect ==
    [][(SendStep /\ (lastOp'.len = 0 \/ (connected /\ mSilent))) =>
         /\ lastOp'.ret = TRUE
         /\ writes' = writes
         /\ accepted' = accepted
         /\ mPendingWrite' = mPendingWrite
         /\ connected' = connected]_vars

\* C15 witness: a non-empty send has been discarded in silent mode
C15_SilentSendDiscarded ==
    /\ lastOp.op = "send"
    /\ lastOp.len > 0
    /\ lastOp.ret
    /\ mSilent
    /\ connected
    /\ sends = 1
    /\ writes = <<>>

\* C19: the transport closes the stream and schedules its destruction at
\* most once.
C19_ClosedAtMostOnce == closeCalls <= 1 /\ Len(deferred) <= 1

-----------------------------------------------------------------------------
(* Further claims about the Process (SpecProc)                             *)

ExecReturnedDone ==
    /\ main.mode = "exec"
    /\ main.ret = "Done"
    /\ main.pc \notin {"join_out", "join_err"}

\* C16: when exec() has returned Done both reader workers have terminated
\* and the stdout worker's finalization is complete (exit status set,
\* process handle invalidated, 'finished' emitted); start() never waits in
\* a join.
C16_ExecReturnsAfterWorkers ==
    /\ ExecReturnedDone =>
         /\ \A w \in Workers : worker[w].pc = "done"
         /\ mReturn = child.code
         /\ mReturn # ReturnUnset
         /\ hProcess = "INVALID"
         /\ finishedCount >= 1
    /\ main.mode = "start" => main.pc \notin {"join_out", "join_err"}

\* C16 witness: exec() has returned Done
C16_ExecDone ==
    /\ ExecReturnedDone
    /\ main.pc = "returned"
    /\ finishedCount = 1

\* C18: an exec() that waits in a join is never stuck: while it waits, some
\* thread or the child can still take a step (so that under fair scheduling
\* it returns).
C18_ExecNeverStuck ==
    (main.mode = "exec" /\ main.pc \in {"join_out", "join_err"}) =>
        ENABLED NextProc

\* C20: on a Process whose child was never launched (never started, or a
\* spawn that returned Error) 'finished' is never emitted and the exit
\* status stays unset.
C20_NoFinishWithoutLaunch ==
    child.state = "none" =>
        /\ finishedCount = 0
        /\ exitFetches = 0
        /\ mReturn = ReturnUnset

\* C17: every access to an output buffer or to the exit status is made with
\* mMutex held.  (The lock_guard scopes lie inside single steps of the
\* model, so no thread holds mMutex while it waits in ReadFile or in
\* WaitForSingleObject.)
C17_AccessesUnderLock == \A a \in accesses : a.locked

=============================================================================
